---- MODULE Spec2Model ----
(***************************************************************************)
(* Model of packages/core/src/lib/core/types-for-lists.ts: initialiseLists *)
(* and the passes it sequences (getIsEnabled, getListGraphqlTypes,         *)
(* getListsWithInitialisedFields, relationship resolution, cascading       *)
(* disablement, validation, registry population), followed by the          *)
(* evaluation of the lazy field thunks of the generated types.             *)
(*                                                                         *)
(* JavaScript values of type `unknown` are modelled by a tag naming the    *)
(* value's kind: "undefined", "true", "false", "function", "string".       *)
(*                                                                         *)
(* Model of packages/core/src/admin-ui/utils/useAdminMeta.tsx: instances   *)
(* of the useAdminMeta hook, their renders and effects, the lazy query     *)
(* they own, local storage and the module-level server-render flag.        *)
(***************************************************************************)
EXTENDS Integers, Sequences, FiniteSets, TLC

VARIABLES
  config,            \* config.lists: listKey -> list declaration
  pc,                \* position of initialiseLists
  error,             \* the error initialiseLists threw, "none" otherwise
  isEnabled,         \* the shared IsEnabled objects, one per list
  graphQLTypes,      \* the types registered by getListGraphqlTypes
  intermediateLists, \* the local `intermediateLists` after field initialisation
  calls,             \* the arguments of each invocation of each field constructor
  listsRef,          \* the shared registry `listsRef`
  lastEval,          \* the field sets produced by the last evaluation of a list's thunks
  result,            \* the object initialiseLists returned, "none" before it returns
  run,               \* which call of initialiseLists on this config is in progress
  first,             \* the outcome of the first call, once a second call has begun
  isServer,          \* typeof window === 'undefined'
  adminMetaHash,     \* the hash useAdminMeta is called with
  fieldViews,        \* the field view modules useAdminMeta is called with
  localStorage,      \* the item stored under 'keystone.adminMeta'
  mustRenderServerResult, \* the module-level flag _mustRenderServerResult
  hook               \* the state of each instance of the hook

vars == <<config, pc, error, isEnabled, graphQLTypes, intermediateLists, calls, listsRef,
          lastEval, result, run, first>>

adminVars == <<isServer, adminMetaHash, fieldViews, localStorage, mustRenderServerResult, hook>>

(***************************************************************************)
(* Bounds and key sets                                                     *)
(***************************************************************************)
MaxFields == 2

ListOrder == <<"Post", "Person">>
ListKeys == {ListOrder[i] : i \in 1..Len(ListOrder)}
UnknownList == "Ghost"

FieldNames == <<"id", "title", "author", "tags">>
FieldOrder == SubSeq(FieldNames, 1, MaxFields)
FieldKeys == {FieldOrder[i] : i \in 1..Len(FieldOrder)}

ListOps == {"query", "create", "update", "delete"}
FieldOps == {"read", "create", "update"}

(***************************************************************************)
(* graphql.omit values                                                     *)
(***************************************************************************)
OmitUndefined == [kind |-> "undefined", ops |-> {}]
OmitTrue == [kind |-> "true", ops |-> {}]
OmitArray(S) == [kind |-> "array", ops |-> S]
\* a string value; ops are the operation names that occur in it as substrings
OmitString(S) == [kind |-> "string", ops |-> S]
OmitEmptyString == [kind |-> "emptyString", ops |-> {}]
OmitFalse == [kind |-> "false", ops |-> {}]
OmitNumber == [kind |-> "number", ops |-> {}]

\* JavaScript truthiness of an omit value (`!omit` at line 89)
OmitTruthy(omit) == omit.kind \in {"true", "array", "string", "number"}
\* whether `omit.includes` is a function (arrays and strings have one)
HasIncludes(omit) == omit.kind \in {"array", "string", "emptyString"}
\* omit.includes(op): membership for an array, substring test for a string
Includes(omit, op) == op \in omit.ops

\* the values the declaration's type admits: true, undefined, a set of list operations
WellFormedListOmit(omit) ==
  \/ omit.kind \in {"undefined", "true"}
  \/ omit.kind = "array" /\ omit.ops \subseteq ListOps

(***************************************************************************)
(* Helpers for JavaScript operators                                        *)
(***************************************************************************)
\* a ?? b
Nullish(a, b) == IF a = "undefined" THEN b ELSE a
\* truthiness of a tagged value (the strings modelled are non-empty)
Truthy(v) == v \in {"true", "function", "string"}
\* read && v, for a boolean read
AndThen(read, v) == IF read THEN v ELSE "false"

\* throwIfNotAFilter returns normally
IsAFilter(x) == x \in {"true", "false", "undefined", "function"}

(***************************************************************************)
(* getIsEnabled                                                            *)
(***************************************************************************)
\* the error thrown for one list, "none" when its record is built
IsEnabledError(listConfig) ==
  LET omit == listConfig.omit IN
    IF ~OmitTruthy(omit) /\ ~IsAFilter(listConfig.defaultIsFilterable) THEN "NotAFilter"
    ELSE IF ~OmitTruthy(omit) /\ ~IsAFilter(listConfig.defaultIsOrderable) THEN "NotAFilter"
    ELSE IF omit.kind \notin {"true", "undefined"} /\ ~HasIncludes(omit) THEN "TypeError"
    ELSE "none"

\* IsEnabledRecord with the omit: true branch keeping the filter defaults
IsEnabledRecord_keepsDefaults(listConfig) ==
  LET omit == listConfig.omit IN
    IF omit.kind = "true" THEN
      [type |-> FALSE, query |-> FALSE, create |-> FALSE, update |-> FALSE,
       delete |-> FALSE,
       filter |-> Nullish(listConfig.defaultIsFilterable, "true"),
       orderBy |-> Nullish(listConfig.defaultIsOrderable, "true")]
    ELSE
      [type |-> TRUE,
       query |-> ~Includes(omit, "query"),
       create |-> ~Includes(omit, "create"),
       update |-> ~Includes(omit, "update"),
       delete |-> ~Includes(omit, "delete"),
       filter |-> Nullish(listConfig.defaultIsFilterable, "true"),
       orderBy |-> Nullish(listConfig.defaultIsOrderable, "true")]

\* the IsEnabled record built for one list (lines 96-126)
IsEnabledRecord(listConfig) ==
  LET omit == listConfig.omit IN
    IF omit.kind = "true" THEN
      [type |-> FALSE, query |-> FALSE, create |-> FALSE, update |-> FALSE,
       delete |-> FALSE, filter |-> "false", orderBy |-> "false"]
    ELSE IF omit.kind = "undefined" THEN
      [type |-> TRUE, query |-> TRUE, create |-> TRUE, update |-> TRUE, delete |-> TRUE,
       filter |-> Nullish(listConfig.defaultIsFilterable, "true"),
       orderBy |-> Nullish(listConfig.defaultIsOrderable, "true")]
    ELSE
      [type |-> TRUE,
       query |-> ~Includes(omit, "query"),
       create |-> ~Includes(omit, "create"),
       update |-> ~Includes(omit, "update"),
       delete |-> ~Includes(omit, "delete"),
       filter |-> Nullish(listConfig.defaultIsFilterable, "true"),
       orderBy |-> Nullish(listConfig.defaultIsOrderable, "true")]

\* the first list, in declaration order, for which getIsEnabled throws; 0 if none
FirstIsEnabledError ==
  LET bad == {i \in 1..Len(ListOrder) : IsEnabledError(config[ListOrder[i]]) # "none"} IN
    IF bad = {} THEN 0 ELSE CHOOSE i \in bad : \A j \in bad : i <= j

(***************************************************************************)
(* Access-control normalisation (access-control.ts is not part of the      *)
(* sources at hand: modelled from the documented contract, booleans and    *)
(* functions only, unset slots allow)                                      *)
(***************************************************************************)
IsAccessValue(x) == x \in {"undefined", "true", "false", "function"}

FieldAccessValid(access) ==
  IsAccessValue(access.read) /\ IsAccessValue(access.create) /\ IsAccessValue(access.update)

parseFieldAccessControl(access) ==
  [read |-> Nullish(access.read, "true"),
   create |-> Nullish(access.create, "true"),
   update |-> Nullish(access.update, "true")]

ListAccessValid(access) == IsAccessValue(access)

parseListAccessControl(access) == Nullish(access, "true")

(***************************************************************************)
(* getListsWithInitialisedFields                                           *)
(***************************************************************************)
\* omit !== true && !omit?.includes(op)   (lines 165-169)
FieldOpEnabled(omit, op) ==
  omit.kind # "true" /\ ~(omit.kind # "undefined" /\ Includes(omit, op))

\* FieldIsEnabled without the `read &&` gate on filter and orderBy
FieldIsEnabled_ungated(f, listIsEnabled) ==
  [read |-> FieldOpEnabled(f.omit, "read"),
   update |-> FieldOpEnabled(f.omit, "update"),
   create |-> FieldOpEnabled(f.omit, "create"),
   filter |-> Nullish(f.isFilterable, listIsEnabled.filter),
   orderBy |-> Nullish(f.isOrderable, listIsEnabled.orderBy)]

\* the _isEnabled record of a field (lines 164-174)
FieldIsEnabled(f, listIsEnabled) ==
  LET read == FieldOpEnabled(f.omit, "read") IN
    [read |-> read,
     update |-> FieldOpEnabled(f.omit, "update"),
     create |-> FieldOpEnabled(f.omit, "create"),
     filter |-> AndThen(read, Nullish(f.isFilterable, listIsEnabled.filter)),
     orderBy |-> AndThen(read, Nullish(f.isOrderable, listIsEnabled.orderBy))]

\* resultFields[fieldKey] (lines 176-186)
InitialisedField(f, listIsEnabled) ==
  [output |-> f.output,
   extraOutputFields |-> f.extraOutputFields,
   input |-> f.input,
   isFilterable |-> f.isFilterable,
   isOrderable |-> f.isOrderable,
   dbField |-> f.dbField,
   access |-> parseFieldAccessControl(f.access),
   isEnabled |-> FieldIsEnabled(f, listIsEnabled)]

\* FieldError without the access-control parse of line 179
FieldError_accessUnparsed(f) ==
  IF ~f.isFunc THEN "NotAFunction"
  ELSE IF f.derefs # "none" /\ f.derefs \notin DOMAIN listsRef THEN "TypeError"
  ELSE IF ~IsAFilter(f.isFilterable) \/ ~IsAFilter(f.isOrderable) THEN "NotAFilter"
  ELSE "none"

\* the error raised while one field is initialised, in the order of lines 146-179;
\* a constructor that evaluates a field thunk of list f.derefs reads lists[f.derefs]
FieldError(f) ==
  IF ~f.isFunc THEN "NotAFunction"
  ELSE IF f.derefs # "none" /\ f.derefs \notin DOMAIN listsRef THEN "TypeError"
  ELSE IF ~IsAFilter(f.isFilterable) \/ ~IsAFilter(f.isOrderable) THEN "NotAFilter"
  ELSE IF ~FieldAccessValid(f.access) THEN "AccessShape"
  ELSE "none"

\* The loops of lines 141-211 as a sequence of steps: for each list, one step per
\* field and then one step that builds result[listKey] (parseListAccessControl).
StepsPerList == Len(FieldOrder) + 1
NumSteps == Len(ListOrder) * StepsPerList
StepList(i) == ListOrder[((i - 1) \div StepsPerList) + 1]
StepPos(i) == ((i - 1) % StepsPerList) + 1
IsFieldStep(i) == StepPos(i) <= Len(FieldOrder)
StepField(i) == FieldOrder[StepPos(i)]
StepIndex(l, k) ==
  CHOOSE i \in 1..NumSteps : IsFieldStep(i) /\ StepList(i) = l /\ StepField(i) = k

StepError(i) ==
  IF IsFieldStep(i) THEN FieldError(config[StepList(i)].fields[StepField(i)])
  ELSE IF ~ListAccessValid(config[StepList(i)].access) THEN "AccessShape"
  ELSE "none"

FirstFailingStep ==
  LET bad == {i \in 1..NumSteps : StepError(i) # "none"} IN
    IF bad = {} THEN 0 ELSE CHOOSE i \in bad : \A j \in bad : i <= j

StepDecl(i) == config[StepList(i)].fields[StepField(i)]

\* the pass ends in a constructor that evaluates a field thunk of a list's types
ConstructorEvaluatesThunk ==
  /\ FirstFailingStep # 0
  /\ IsFieldStep(FirstFailingStep)
  /\ StepDecl(FirstFailingStep).isFunc
  /\ StepDecl(FirstFailingStep).derefs # "none"

\* whether the constructor of field k of list l is invoked by the pass
ConstructorInvoked(l, k) ==
  LET i == StepIndex(l, k)
      fail == FirstFailingStep IN
    \/ fail = 0
    \/ i < fail
    \/ i = fail /\ StepError(i) # "NotAFunction"

\* the objects named by `listGraphqlTypes` (line 486) and by `provider` (line 135)
TypesObject == "listGraphqlTypes"
Provider == "provider"

\* the argument of fieldFunc (lines 150-156); getStorage only reads config.storage
ConstructorArgs(l, k) ==
  [fieldKey |-> k, listKey |-> l, lists |-> TypesObject, provider |-> Provider]

\* result[listKey] (lines 189-210)
PartiallyInitialisedList(l) ==
  [fields |-> [k \in FieldKeys |-> InitialisedField(config[l].fields[k], isEnabled[l])],
   access |-> parseListAccessControl(config[l].access),
   listKey |-> l,
   resolvedDbFields |-> <<>>]

(***************************************************************************)
(* resolveRelationships (resolve-relationships.ts is not part of the       *)
(* sources at hand: modelled from the documented algorithm)                *)
(***************************************************************************)
NoDbField == [kind |-> "none", list |-> "", mode |-> "", field |-> ""]
ScalarDbField == [kind |-> "scalar", list |-> "", mode |-> "", field |-> ""]
\* a relation to `list`; `field` names the other side, "" for a one-sided relation
RelationDbField(list, mode, field) ==
  [kind |-> "relation", list |-> list, mode |-> mode, field |-> field]

InverseName(l, k) == "from_" \o l \o "_" \o k
\* a synthesized side that copies the cardinality of the declared side
InverseMode_same(mode) == mode

InverseMode(mode) == "many"

DeclaredDbField(l, k) == intermediateLists[l].fields[k].dbField

RelationError(l, k) ==
  LET d == DeclaredDbField(l, k) IN
    /\ d.kind = "relation"
    /\ \/ d.list \notin ListKeys
       \/ /\ d.field # ""
          /\ \/ d.field \notin FieldKeys
             \/ LET o == DeclaredDbField(d.list, d.field) IN
                  o.kind # "relation" \/ o.list # l \/ o.field # k

RelationshipsError == \E l \in ListKeys, k \in FieldKeys : RelationError(l, k)

\* the one-sided relation fields that point at list l
OneSidedInto(l) ==
  {p \in ListKeys \X FieldKeys :
     LET d == DeclaredDbField(p[1], p[2]) IN
       d.kind = "relation" /\ d.list = l /\ d.field = ""}

resolveRelationships(l) ==
  LET inv == OneSidedInto(l)
      names == {InverseName(p[1], p[2]) : p \in inv}
      source(n) == CHOOSE p \in inv : InverseName(p[1], p[2]) = n
  IN [n \in FieldKeys \cup names |->
        IF n \in FieldKeys THEN
          LET d == DeclaredDbField(l, n) IN
            IF d.kind = "relation" /\ d.field = ""
            THEN [d EXCEPT !.field = InverseName(l, n)]
            ELSE d
        ELSE
          LET p == source(n) IN
            RelationDbField(p[1], InverseMode(DeclaredDbField(p[1], p[2]).mode), p[2])]

(***************************************************************************)
(* assertFieldsValid (field-assertions.ts is not part of the sources at    *)
(* hand: modelled from the documented checks, duplicate and reserved names)*)
(***************************************************************************)
ReservedFieldKeys == {"AND", "OR", "NOT"}

ExtraNames(f) == {f.extraOutputFields[i] : i \in DOMAIN f.extraOutputFields}

FieldsInvalid(l) ==
  LET fields == intermediateLists[l].fields IN
    \/ FieldKeys \cap ReservedFieldKeys # {}
    \/ \E k \in FieldKeys : ExtraNames(fields[k]) \cap FieldKeys # {}
    \/ \E k1, k2 \in FieldKeys :
         k1 # k2 /\ ExtraNames(fields[k1]) \cap ExtraNames(fields[k2]) # {}

(***************************************************************************)
(* The field thunks registered by getListGraphqlTypes, evaluated against   *)
(* the shared registry and the shared IsEnabled objects                    *)
(***************************************************************************)
\* Object.fromEntries: a later entry replaces an earlier one of the same name
FromEntries(entries) ==
  [n \in {entries[i].name : i \in DOMAIN entries} |->
     LET last == CHOOSE i \in DOMAIN entries :
                   entries[i].name = n /\ \A j \in DOMAIN entries : entries[j].name = n => j <= i
     IN entries[last]]

\* OutputSuppressed without the check of the target list's query enablement
OutputSuppressed_readOnly(field) ==
  \/ ~field.output
  \/ ~field.isEnabled.read

\* whether the output thunk drops the field (lines 236-243)
OutputSuppressed(field) ==
  \/ ~field.output
  \/ ~field.isEnabled.read
  \/ field.dbField.kind = "relation" /\ ~isEnabled[field.dbField.list].query

\* outputTypeField(outputField, dbField, cacheHint, access.read, listKey, fieldPath, lists)
outputTypeField(name, field, listKey, fieldPath) ==
  [name |-> name, access |-> field.access.read, listKey |-> listKey, fieldPath |-> fieldPath]

\* OutputEntriesOfField that wraps the field's own output only and exposes the extra
\* output fields without the field's read rule
OutputEntriesOfField_extrasUnwrapped(l, fieldPath) ==
  LET field == listsRef[l].fields[fieldPath] IN
    IF OutputSuppressed(field) THEN <<>>
    ELSE <<outputTypeField(fieldPath, field, l, fieldPath)>> \o
         [i \in DOMAIN field.extraOutputFields |->
            [name |-> field.extraOutputFields[i], access |-> "true",
             listKey |-> l, fieldPath |-> fieldPath]]

\* the entries one field contributes to the output type (lines 244-260)
OutputEntriesOfField(l, fieldPath) ==
  LET field == listsRef[l].fields[fieldPath] IN
    IF OutputSuppressed(field) THEN <<>>
    ELSE <<outputTypeField(fieldPath, field, l, fieldPath)>> \o
         [i \in DOMAIN field.extraOutputFields |->
            outputTypeField(field.extraOutputFields[i], field, l, fieldPath)]

RECURSIVE OutputEntries(_, _)
OutputEntries(l, n) ==
  IF n = 0 THEN <<>>
  ELSE OutputEntries(l, n - 1) \o OutputEntriesOfField(l, FieldOrder[n])

OutputFields(l) == FromEntries(OutputEntries(l, Len(FieldOrder)))

\* UniqueWhereFields with the literal id entry spread before the fields' entries
UniqueWhereFields_idFirst(l) ==
  LET fields == listsRef[l].fields
      keys == {k \in FieldKeys :
                 /\ fields[k].input.uniqueWhere = "arg"
                 /\ fields[k].isEnabled.read
                 /\ Truthy(fields[k].isEnabled.filter)}
  IN IF keys = {} THEN <<>> ELSE [n \in keys \cup {"id"} |-> IF n \in keys THEN "field" ELSE "ID"]

\* lines 269-288: the fields' unique-lookup arguments, then the literal id entry
UniqueWhereFields(l) ==
  LET fields == listsRef[l].fields
      keys == {k \in FieldKeys :
                 /\ fields[k].input.uniqueWhere = "arg"
                 /\ fields[k].isEnabled.read
                 /\ Truthy(fields[k].isEnabled.filter)}
  IN [n \in keys \cup {"id"} |-> IF n = "id" THEN "ID" ELSE "field"]

\* lines 293-308: the combinators, then the fields' filter arguments
WhereFields(l) ==
  LET fields == listsRef[l].fields
      keys == {k \in FieldKeys :
                 /\ fields[k].input.where = "arg"
                 /\ fields[k].isEnabled.read
                 /\ Truthy(fields[k].isEnabled.filter)}
  IN [n \in {"AND", "OR", "NOT"} \cup keys |-> IF n \in keys THEN "field" ELSE "combinator"]

\* CreateFields without the check of the field's create enablement
CreateFields_argOnly(l) ==
  LET fields == listsRef[l].fields IN
    {k \in FieldKeys : fields[k].input.create = "arg"}

\* lines 313-321
CreateFields(l) ==
  LET fields == listsRef[l].fields IN
    {k \in FieldKeys : fields[k].input.create = "arg" /\ fields[k].isEnabled.create}

\* lines 326-334
UpdateFields(l) ==
  LET fields == listsRef[l].fields IN
    {k \in FieldKeys : fields[k].input.update = "arg" /\ fields[k].isEnabled.update}

\* lines 339-353
OrderByFields(l) ==
  LET fields == listsRef[l].fields IN
    {k \in FieldKeys :
       /\ fields[k].input.orderBy = "arg"
       /\ fields[k].isEnabled.read
       /\ Truthy(fields[k].isEnabled.orderBy)}

\* CreateEntry reading the create flag as getIsEnabled set it, not as it is at evaluation
CreateEntry_eager(l) == IF IsEnabledRecord(config[l]).create THEN {"create"} ELSE {}

\* ...(isEnabled.create && { create }) of lines 378, 395, 408, 419
CreateEntry(l) == IF isEnabled[l].create THEN {"create"} ELSE {}

\* lines 370-425: the relateTo input types, defined only if the list's type was enabled
\* when getListGraphqlTypes ran
RelateToFields(l) ==
  IF graphQLTypes[l].relateTo THEN
    [defined |-> TRUE,
     manyCreate |-> CreateEntry(l) \cup {"connect"},
     manyUpdate |-> {"disconnect", "set"} \cup CreateEntry(l) \cup {"connect"},
     oneCreate |-> CreateEntry(l) \cup {"connect"},
     oneUpdate |-> CreateEntry(l) \cup {"connect", "disconnect"}]
  ELSE
    [defined |-> FALSE, manyCreate |-> {}, manyUpdate |-> {}, oneCreate |-> {}, oneUpdate |-> {}]

\* the evaluation of every field thunk of list l; each reads lists[listKey] first
ThunkResult(l) ==
  IF l \notin DOMAIN listsRef THEN
    [list |-> l, ok |-> FALSE]
  ELSE
    [list |-> l, ok |-> TRUE,
     output |-> OutputFields(l),
     uniqueWhere |-> UniqueWhereFields(l),
     where |-> WhereFields(l),
     create |-> CreateFields(l),
     update |-> UpdateFields(l),
     orderBy |-> OrderByFields(l),
     relateTo |-> RelateToFields(l)]

(***************************************************************************)
(* The declarations resolved: the inputs of initialiseLists                *)
(***************************************************************************)
NoAccess == [read |-> "undefined", create |-> "undefined", update |-> "undefined"]
ReadAccess(v) == [read |-> v, create |-> "undefined", update |-> "undefined"]

Inputs(uniqueWhere, where, create, update, orderBy) ==
  [uniqueWhere |-> uniqueWhere, where |-> where, create |-> create,
   update |-> update, orderBy |-> orderBy]

\* what a text-like field constructor returns
TextField ==
  [isFunc |-> TRUE, derefs |-> "none", omit |-> OmitUndefined,
   isFilterable |-> "undefined", isOrderable |-> "undefined", access |-> NoAccess,
   input |-> Inputs("absent", "arg", "arg", "arg", "arg"),
   output |-> TRUE, extraOutputFields |-> <<>>, dbField |-> ScalarDbField]

\* what a relationship field constructor returns
RelationField(list, mode, field) ==
  [TextField EXCEPT !.dbField = RelationDbField(list, mode, field),
                    !.input = Inputs("absent", "arg", "arg", "arg", "absent")]

PlainList ==
  [omit |-> OmitUndefined, defaultIsFilterable |-> "undefined",
   defaultIsOrderable |-> "undefined", access |-> "undefined",
   fields |-> [k \in FieldKeys |-> TextField]]

\* field declarations that agree with `probe` on the first field
FieldsWith(Probe, Context) ==
  {[k \in FieldKeys |-> IF k = FieldOrder[1] THEN p ELSE c[k]] :
     p \in Probe, c \in [FieldKeys -> Context]}

\* -- create/update enablement: every field varies
CrudFieldVariants ==
  {[TextField EXCEPT !.omit = o, !.input.create = i[1], !.input.update = i[2]] :
     o \in {OmitUndefined, OmitArray({"create"}), OmitArray({"update"})},
     i \in {<<"arg", "arg">>, <<"absent", "arg">>, <<"arg", "absent">>}}
  \cup {[TextField EXCEPT !.omit = OmitTrue],
        [TextField EXCEPT !.input.update = "noArg"],
        [TextField EXCEPT !.omit = OmitArray({"create", "update"})]}

CrudListOmits ==
  {OmitUndefined, OmitTrue, OmitArray({"create"}), OmitArray({"update"}),
   OmitArray({"query", "delete"})}

CrudConfig(c) ==
  \E o \in CrudListOmits, f \in [FieldKeys -> CrudFieldVariants] :
    c = [l \in ListKeys |->
           IF l = "Post" THEN [PlainList EXCEPT !.omit = o, !.fields = f] ELSE PlainList]

\* -- filter/orderBy enablement: the first field varies in full
FilterPairs ==
  {<<"undefined", "undefined">>, <<"true", "false">>, <<"false", "true">>,
   <<"function", "undefined">>, <<"undefined", "function">>,
   <<"string", "undefined">>, <<"undefined", "string">>}

FilterProbes ==
  {[TextField EXCEPT !.omit = o, !.isFilterable = p[1], !.isOrderable = p[2], !.input = i] :
     o \in {OmitUndefined, OmitArray({"read"}), OmitTrue},
     p \in FilterPairs,
     i \in {Inputs("arg", "arg", "arg", "arg", "arg"),
            Inputs("absent", "arg", "arg", "arg", "arg"),
            Inputs("arg", "absent", "arg", "arg", "absent")}}

FilterContext == {TextField, [TextField EXCEPT !.omit = OmitArray({"read"})]}

FilterConfig(c) ==
  \E o \in {OmitUndefined, OmitTrue, OmitArray({"query"})},
     p \in FilterPairs,
     f \in FieldsWith(FilterProbes, FilterContext) :
    c = [l \in ListKeys |->
           IF l = "Post"
           THEN [PlainList EXCEPT !.omit = o, !.defaultIsFilterable = p[1],
                                  !.defaultIsOrderable = p[2], !.fields = f]
           ELSE PlainList]

\* -- output types and relationships
OutputFieldVariants ==
  {TextField,
   [TextField EXCEPT !.output = FALSE],
   [TextField EXCEPT !.extraOutputFields = <<"extra">>, !.access = ReadAccess("function")],
   [TextField EXCEPT !.extraOutputFields = <<"title">>],
   RelationField("Person", "one", ""),
   [RelationField("Person", "many", "") EXCEPT !.extraOutputFields = <<"count">>,
                                               !.access = ReadAccess("false")],
   RelationField("Person", "many", "title"),
   RelationField(UnknownList, "one", "")}

OutputConfig(c) ==
  \E o \in {OmitUndefined, OmitArray({"query"})},
     t \in {OmitUndefined, OmitTrue, OmitArray({"query"}), OmitArray({"create"})},
     b \in {TextField, RelationField("Post", "one", "id"), RelationField("Post", "one", "title"),
            RelationField("Post", "one", "")},
     f \in [FieldKeys -> OutputFieldVariants] :
    c = [l \in ListKeys |->
           IF l = "Post" THEN [PlainList EXCEPT !.omit = o, !.fields = f]
           ELSE [PlainList EXCEPT !.omit = t, !.fields[FieldOrder[2]] = b]]

\* -- malformed declarations
ErrorFieldVariants ==
  {TextField,
   [TextField EXCEPT !.isFunc = FALSE],
   [TextField EXCEPT !.derefs = "Person"],
   [TextField EXCEPT !.isOrderable = "string"],
   [TextField EXCEPT !.access = ReadAccess("string")]}

ErrorListOmits ==
  {OmitUndefined, OmitArray({"read"}), OmitArray({"query", "read"}), OmitString({"query"}),
   OmitEmptyString, OmitFalse, OmitNumber}

ErrorConfig(c) ==
  \E o \in ErrorListOmits,
     a \in {"undefined", "string"},
     q \in {PlainList,
            [PlainList EXCEPT !.omit = OmitNumber],
            [PlainList EXCEPT !.fields[FieldOrder[1]] =
               [TextField EXCEPT !.access = ReadAccess("string")]]},
     f \in [FieldKeys -> ErrorFieldVariants] :
    c = [l \in ListKeys |->
           IF l = "Post" THEN [PlainList EXCEPT !.omit = o, !.access = a, !.fields = f]
           ELSE q]

\* the objects named by `listsRef` (line 483) and by `intermediateLists` (line 500)
RegistryObject == "listsRef"
IntermediateObject == "intermediateLists"

\* a registry entry whose back-reference is the intermediate object, not the registry
InitialisedList_intermediateBackRef(l) ==
  [fields |-> intermediateLists[l].fields,
   access |-> intermediateLists[l].access,
   listKey |-> intermediateLists[l].listKey,
   resolvedDbFields |-> intermediateLists[l].resolvedDbFields,
   lists |-> IntermediateObject]

\* { ...intermediateList, lists: listsRef } (lines 545-548)
InitialisedList(l) ==
  [fields |-> intermediateLists[l].fields,
   access |-> intermediateLists[l].access,
   listKey |-> intermediateLists[l].listKey,
   resolvedDbFields |-> intermediateLists[l].resolvedDbFields,
   lists |-> RegistryObject]


(***************************************************************************)
(* useAdminMeta: values                                                    *)
(***************************************************************************)
\* the JavaScript value undefined, where the other values are records
undefined == [kind |-> "undefined"]

\* the instances of the hook
Hooks == {"a", "b"}

\* line 7
expectedExports == {"Cell", "Field", "controller", "CardValue"}
ExpectedOrder == <<"Cell", "Field", "controller", "CardValue">>

\* a field view module: the names it exports, and the contents of its
\* allowedExportsOnCustomViews export when it has one
ViewModule(exports, allowed) == [exports |-> exports, allowed |-> allowed]

\* a field of the static admin meta; customViewsIndex 0 stands for null
MetaField(path, viewsIndex, customViewsIndex) ==
  [path |-> path, viewsIndex |-> viewsIndex, customViewsIndex |-> customViewsIndex]

\* two static admin metas: one whose field has no custom views, one whose field has
PlainMeta == [key |-> "Post", fields |-> <<MetaField("title", 1, 0)>>]
CustomMeta == [key |-> "Post", fields |-> <<MetaField("title", 1, 0), MetaField("body", 1, 2)>>]
Metas == {PlainMeta, CustomMeta}

\* hashString(JSON.stringify(adminMeta)) (line 128): distinct metas, distinct hashes
hashString(meta) == IF meta = PlainMeta THEN "hashOfPlain" ELSE "hashOfCustom"

\* what localStorage.getItem returns: null, text that is no JSON, or a stored entry
NoItem == [kind |-> "null"]
BrokenItem == [kind |-> "unparseable"]
StoredItem(hash, meta) == [kind |-> "entry", hash |-> hash, meta |-> meta]

\* the adminMetaFromLocalStorage memo (lines 28-44); `undefined` when nothing is returned
ReadCache ==
  IF isServer THEN undefined
  ELSE IF localStorage.kind = "null" THEN undefined
  ELSE IF localStorage.kind = "unparseable" THEN undefined
  ELSE IF localStorage.hash = adminMetaHash THEN localStorage.meta
  ELSE undefined

\* the first expected export the view module lacks, "" if none (lines 76-82)
FirstMissingExport(view) ==
  LET missing == {i \in DOMAIN ExpectedOrder : ExpectedOrder[i] \notin view.exports} IN
    IF missing = {} THEN ""
    ELSE ExpectedOrder[CHOOSE i \in missing : \A j \in missing : i <= j]

\* the error building one field of the runtime meta throws, "none" if it is built
\* (lines 75-107)
FieldBuildError(field) ==
  LET view == fieldViews[field.viewsIndex] IN
    IF FirstMissingExport(view) # "" THEN "MissingExport"
    ELSE IF \E e \in view.exports :
              e \notin expectedExports /\ e # "allowedExportsOnCustomViews"
      THEN "UnexpectedExport"
    ELSE IF /\ field.customViewsIndex # 0
            /\ \E e \in fieldViews[field.customViewsIndex].exports :
                 e \notin view.allowed /\ e \notin expectedExports
      THEN "UnexpectedCustomExport"
    ELSE "none"

\* the error building the runtime meta throws: that of the first field that fails
BuildError(meta) ==
  LET bad == {i \in DOMAIN meta.fields : FieldBuildError(meta.fields[i]) # "none"} IN
    IF bad = {} THEN "none"
    ELSE FieldBuildError(meta.fields[CHOOSE i \in bad : \A j \in bad : i <= j])

\* runtimeAdminMeta.lists[list.key].fields[field.path] (lines 90-122): the views with
\* the expected exports a custom view module overrides, and the custom views
RuntimeField(field) ==
  LET view == fieldViews[field.viewsIndex]
      custom == IF field.customViewsIndex = 0 THEN {}
                ELSE fieldViews[field.customViewsIndex].exports
  IN [path |-> field.path,
      views |-> view.exports,
      overridden |-> {e \in custom : e \notin view.allowed /\ e \in expectedExports},
      customViews |-> {e \in custom : e \in view.allowed}]

\* the runtimeAdminMeta built from a static admin meta (lines 66-124)
RuntimeAdminMeta(meta) ==
  [key |-> meta.key, fields |-> [i \in DOMAIN meta.fields |-> RuntimeField(meta.fields[i])]]

\* the field view modules: a complete module, one lacking an export, one with a stray
\* export, one that allows a custom export; and the modules custom views come from
CompleteView == ViewModule(expectedExports, {})
ViewChoices ==
  {CompleteView,
   ViewModule(expectedExports \ {"CardValue"}, {}),
   ViewModule(expectedExports \cup {"Stray"}, {}),
   ViewModule(expectedExports \cup {"allowedExportsOnCustomViews"}, {"Extra"})}
CustomViewChoices ==
  {ViewModule({"Cell"}, {}), ViewModule({"Cell", "Extra"}, {})}

\* a hook instance that has not rendered yet; useLazyQuery has not been called
Unmounted ==
  [phase |-> "unmounted", cache |-> undefined,
   called |-> FALSE, loading |-> FALSE, data |-> undefined, error |-> FALSE,
   shouldFetchAdminMeta |-> FALSE, fetchEffectDue |-> FALSE, mountEffectDue |-> FALSE,
   dirty |-> FALSE, memoDeps |-> <<>>, runtimeAdminMeta |-> undefined,
   state |-> "none", guarded |-> FALSE, refetch |-> FALSE, autoFetches |-> 0, wrote |-> FALSE]

\* the schema is resolved on the server, where no Admin UI instance is mounted
NoAdminUI ==
  /\ isServer = TRUE
  /\ adminMetaHash = hashString(PlainMeta)
  /\ fieldViews = <<CompleteView, CompleteView>>
  /\ localStorage = NoItem
  /\ mustRenderServerResult = TRUE
  /\ hook = [i \in Hooks |-> Unmounted]

(***************************************************************************)
(* initialiseLists                                                         *)
(***************************************************************************)
Init ==
  /\ \/ CrudConfig(config)
     \/ FilterConfig(config)
     \/ OutputConfig(config)
     \/ ErrorConfig(config)
  /\ pc = "getIsEnabled"
  /\ error = "none"
  /\ isEnabled = <<>>
  /\ graphQLTypes = <<>>
  /\ intermediateLists = <<>>
  /\ calls = [p \in ListKeys \X FieldKeys |-> <<>>]
  /\ listsRef = <<>>
  /\ lastEval = <<>>
  /\ result = "none"
  /\ run = 1
  /\ first = <<>>
  /\ NoAdminUI

Throw(e) ==
  /\ pc' = "thrown"
  /\ error' = e

\* lines 469-475
GetIsEnabled ==
  /\ pc = "getIsEnabled"
  /\ IF FirstIsEnabledError # 0
     THEN /\ Throw(IsEnabledError(config[ListOrder[FirstIsEnabledError]]))
          /\ UNCHANGED isEnabled
     ELSE /\ isEnabled' = [l \in ListKeys |-> IsEnabledRecord(config[l])]
          /\ pc' = "getListGraphqlTypes"
          /\ UNCHANGED error
  /\ UNCHANGED <<config, graphQLTypes, intermediateLists, calls, listsRef, lastEval>>
  /\ UNCHANGED <<result, run, first>>
  /\ UNCHANGED adminVars

\* lines 483-486: the registry is created empty and every list's types are registered
GetListGraphqlTypes ==
  /\ pc = "getListGraphqlTypes"
  /\ listsRef' = <<>>
  /\ graphQLTypes' =
       [l \in ListKeys |-> [relateTo |-> isEnabled[l].type, lists |-> RegistryObject]]
  /\ pc' = "getListsWithInitialisedFields"
  /\ UNCHANGED <<config, error, isEnabled, intermediateLists, calls, lastEval>>
  /\ UNCHANGED <<result, run, first>>
  /\ UNCHANGED adminVars

\* GetListsWithInitialisedFields that keeps the lists an earlier call initialised
GetListsWithInitialisedFields_memoised ==
  /\ pc = "getListsWithInitialisedFields"
  /\ IF intermediateLists # <<>>
     THEN /\ pc' = "resolveRelationships"
          /\ UNCHANGED <<error, intermediateLists, calls, lastEval>>
     ELSE /\ calls' = [p \in ListKeys \X FieldKeys |->
                         IF ConstructorInvoked(p[1], p[2])
                         THEN Append(calls[p], ConstructorArgs(p[1], p[2]))
                         ELSE calls[p]]
          /\ IF FirstFailingStep # 0
             THEN /\ Throw(StepError(FirstFailingStep))
                  /\ UNCHANGED intermediateLists
             ELSE /\ intermediateLists' = [l \in ListKeys |-> PartiallyInitialisedList(l)]
                  /\ pc' = "resolveRelationships"
                  /\ UNCHANGED error
          /\ lastEval' = IF ConstructorEvaluatesThunk
                         THEN <<ThunkResult(StepDecl(FirstFailingStep).derefs)>>
                         ELSE lastEval
  /\ UNCHANGED <<config, isEnabled, graphQLTypes, listsRef>>
  /\ UNCHANGED <<result, run, first>>
  /\ UNCHANGED adminVars

\* line 487
GetListsWithInitialisedFields ==
  /\ pc = "getListsWithInitialisedFields"
  /\ calls' = [p \in ListKeys \X FieldKeys |->
                 IF ConstructorInvoked(p[1], p[2])
                 THEN Append(calls[p], ConstructorArgs(p[1], p[2]))
                 ELSE calls[p]]
  /\ IF FirstFailingStep # 0
     THEN /\ Throw(StepError(FirstFailingStep))
          /\ UNCHANGED intermediateLists
     ELSE /\ intermediateLists' = [l \in ListKeys |-> PartiallyInitialisedList(l)]
          /\ pc' = "resolveRelationships"
          /\ UNCHANGED error
  /\ lastEval' = IF ConstructorEvaluatesThunk
                 THEN <<ThunkResult(StepDecl(FirstFailingStep).derefs)>>
                 ELSE lastEval
  /\ UNCHANGED <<config, isEnabled, graphQLTypes, listsRef>>
  /\ UNCHANGED <<result, run, first>>
  /\ UNCHANGED adminVars

\* lines 490-498
ResolveRelationships ==
  /\ pc = "resolveRelationships"
  /\ IF RelationshipsError
     THEN /\ Throw("Relationship")
          /\ UNCHANGED intermediateLists
     ELSE /\ intermediateLists' =
               [l \in ListKeys |->
                  [intermediateLists[l] EXCEPT !.resolvedDbFields = resolveRelationships(l)]]
          /\ pc' = "assignDbFields"
          /\ UNCHANGED error
  /\ UNCHANGED <<config, isEnabled, graphQLTypes, calls, listsRef, lastEval>>
  /\ UNCHANGED <<result, run, first>>
  /\ UNCHANGED adminVars

\* AssignDbFields that leaves each field with the dbField its constructor returned
AssignDbFields_keepsPreliminary ==
  /\ pc = "assignDbFields"
  /\ pc' = "cascade"
  /\ UNCHANGED <<config, error, isEnabled, graphQLTypes, intermediateLists, calls, listsRef,
                 lastEval>>
  /\ UNCHANGED <<result, run, first>>
  /\ UNCHANGED adminVars

\* AssignDbFields that calls each field constructor again to read its dbField
AssignDbFields_reinvokes ==
  /\ pc = "assignDbFields"
  /\ calls' = [p \in ListKeys \X FieldKeys |-> Append(calls[p], ConstructorArgs(p[1], p[2]))]
  /\ intermediateLists' =
       [l \in ListKeys |->
          [intermediateLists[l] EXCEPT !.fields =
             [k \in FieldKeys |->
                [intermediateLists[l].fields[k] EXCEPT
                   !.dbField = intermediateLists[l].resolvedDbFields[k]]]]]
  /\ pc' = "cascade"
  /\ UNCHANGED <<config, error, isEnabled, graphQLTypes, listsRef, lastEval>>
  /\ UNCHANGED <<result, run, first>>
  /\ UNCHANGED adminVars

\* lines 500-513
AssignDbFields ==
  /\ pc = "assignDbFields"
  /\ intermediateLists' =
       [l \in ListKeys |->
          [intermediateLists[l] EXCEPT !.fields =
             [k \in FieldKeys |->
                [intermediateLists[l].fields[k] EXCEPT
                   !.dbField = intermediateLists[l].resolvedDbFields[k]]]]]
  /\ pc' = "cascade"
  /\ UNCHANGED <<config, error, isEnabled, graphQLTypes, calls, listsRef, lastEval>>
  /\ UNCHANGED <<result, run, first>>
  /\ UNCHANGED adminVars

\* hasAnEnabledCreateField that looks at the create argument alone
hasAnEnabledCreateField_argOnly(l) ==
  \E k \in FieldKeys : intermediateLists[l].fields[k].input.create = "arg"

hasAnEnabledCreateField(l) ==
  \E k \in FieldKeys :
    LET field == intermediateLists[l].fields[k] IN
      field.input.create = "arg" /\ field.isEnabled.create

hasAnEnabledUpdateField(l) ==
  \E k \in FieldKeys :
    LET field == intermediateLists[l].fields[k] IN
      field.input.update # "absent" /\ field.isEnabled.update

\* CascadeDisable that also switches query and delete off when no field can be
\* created or updated
CascadeDisable_alsoQuery ==
  /\ pc = "cascade"
  /\ isEnabled' =
       [l \in ListKeys |->
          [isEnabled[l] EXCEPT
             !.create = IF hasAnEnabledCreateField(l) THEN @ ELSE FALSE,
             !.update = IF hasAnEnabledUpdateField(l) THEN @ ELSE FALSE,
             !.query = IF hasAnEnabledCreateField(l) \/ hasAnEnabledUpdateField(l)
                       THEN @ ELSE FALSE,
             !.delete = IF hasAnEnabledCreateField(l) \/ hasAnEnabledUpdateField(l)
                        THEN @ ELSE FALSE]]
  /\ pc' = "assertFieldsValid"
  /\ UNCHANGED <<config, error, graphQLTypes, intermediateLists, calls, listsRef, lastEval>>
  /\ UNCHANGED <<result, run, first>>
  /\ UNCHANGED adminVars

\* lines 515-535
CascadeDisable ==
  /\ pc = "cascade"
  /\ isEnabled' =
       [l \in ListKeys |->
          [isEnabled[l] EXCEPT
             !.create = IF hasAnEnabledCreateField(l) THEN @ ELSE FALSE,
             !.update = IF hasAnEnabledUpdateField(l) THEN @ ELSE FALSE]]
  /\ pc' = "assertFieldsValid"
  /\ UNCHANGED <<config, error, graphQLTypes, intermediateLists, calls, listsRef, lastEval>>
  /\ UNCHANGED <<result, run, first>>
  /\ UNCHANGED adminVars

\* AssertFieldsValid run after the registry has been populated
AssertFieldsValid_afterPopulate ==
  /\ pc = "assertFieldsValid"
  /\ listsRef' = [l \in ListKeys |-> InitialisedList(l)]
  /\ IF \E l \in ListKeys : FieldsInvalid(l)
     THEN Throw("FieldsInvalid")
     ELSE pc' = "populate" /\ UNCHANGED error
  /\ UNCHANGED <<config, isEnabled, graphQLTypes, intermediateLists, calls, lastEval>>
  /\ UNCHANGED <<result, run, first>>
  /\ UNCHANGED adminVars

\* AssertFieldsValid that switches an invalid list off and carries on with the load
AssertFieldsValid_disablesList ==
  /\ pc = "assertFieldsValid"
  /\ isEnabled' = [l \in ListKeys |->
                     IF FieldsInvalid(l)
                     THEN [type |-> FALSE, query |-> FALSE, create |-> FALSE,
                           update |-> FALSE, delete |-> FALSE,
                           filter |-> "false", orderBy |-> "false"]
                     ELSE isEnabled[l]]
  /\ pc' = "populate"
  /\ UNCHANGED <<config, error, graphQLTypes, intermediateLists, calls, listsRef, lastEval>>
  /\ UNCHANGED <<result, run, first>>
  /\ UNCHANGED adminVars

\* lines 540-542
AssertFieldsValid ==
  /\ pc = "assertFieldsValid"
  /\ IF \E l \in ListKeys : FieldsInvalid(l)
     THEN Throw("FieldsInvalid")
     ELSE pc' = "populate" /\ UNCHANGED error
  /\ UNCHANGED <<config, isEnabled, graphQLTypes, intermediateLists, calls, listsRef, lastEval>>
  /\ UNCHANGED <<result, run, first>>
  /\ UNCHANGED adminVars

\* PopulateLists that registers only the lists whose types are enabled
PopulateLists_skipsOmitted ==
  /\ pc = "populate"
  /\ listsRef' = [l \in {x \in ListKeys : isEnabled[x].type} |-> InitialisedList(l)]
  /\ pc' = "returned"
  /\ UNCHANGED <<config, error, isEnabled, graphQLTypes, intermediateLists, calls, lastEval>>
  /\ result' = RegistryObject
  /\ UNCHANGED <<run, first>>
  /\ UNCHANGED adminVars

\* lines 544-551
PopulateLists ==
  /\ pc = "populate"
  /\ listsRef' = [l \in ListKeys |-> InitialisedList(l)]
  /\ pc' = "returned"
  /\ UNCHANGED <<config, error, isEnabled, graphQLTypes, intermediateLists, calls, lastEval>>
  /\ result' = RegistryObject
  /\ UNCHANGED <<run, first>>
  /\ UNCHANGED adminVars

\* a consumer of the returned registry evaluates the field thunks of list l's types
EvaluateThunks(l) ==
  /\ pc = "returned"
  /\ lastEval' = <<ThunkResult(l)>>
  /\ UNCHANGED <<config, pc, error, isEnabled, graphQLTypes, intermediateLists, calls, listsRef>>
  /\ UNCHANGED <<result, run, first>>
  /\ UNCHANGED adminVars

Next ==
  \/ GetIsEnabled
  \/ GetListGraphqlTypes
  \/ GetListsWithInitialisedFields
  \/ ResolveRelationships
  \/ AssignDbFields
  \/ CascadeDisable
  \/ AssertFieldsValid
  \/ PopulateLists
  \/ \E l \in ListKeys : EvaluateThunks(l)

Spec == Init /\ [][Next]_vars

\* what a call of initialiseLists produces: the exception or the returned registry,
\* with the enablement objects its entries share
Outcome ==
  [pc |-> pc, error |-> error, isEnabled |-> isEnabled, listsRef |-> listsRef]

\* initialiseLists is called a second time on the same config (line 466); the objects
\* of the first call are not handed to it, each pass binds its own
Restart ==
  /\ pc \in {"returned", "thrown"}
  /\ run = 1
  /\ run' = 2
  /\ first' = <<Outcome>>
  /\ pc' = "getIsEnabled"
  /\ error' = "none"
  /\ calls' = [p \in ListKeys \X FieldKeys |-> <<>>]
  /\ lastEval' = <<>>
  /\ result' = "none"
  /\ UNCHANGED <<config, isEnabled, graphQLTypes, intermediateLists, listsRef>>
  /\ UNCHANGED adminVars

NextTwice == Next \/ Restart

SpecTwice == Init /\ [][NextTwice]_vars

(***************************************************************************)
(* useAdminMeta: renders, effects, the lazy query                          *)
(***************************************************************************)
\* no schema resolution takes part in the Admin UI's behaviours
NoResolution ==
  /\ config = [l \in ListKeys |-> PlainList]
  /\ pc = "getIsEnabled"
  /\ error = "none"
  /\ isEnabled = <<>>
  /\ graphQLTypes = <<>>
  /\ intermediateLists = <<>>
  /\ calls = [p \in ListKeys \X FieldKeys |-> <<>>]
  /\ listsRef = <<>>
  /\ lastEval = <<>>
  /\ result = "none"
  /\ run = 1
  /\ first = <<>>

InitAdmin ==
  /\ NoResolution
  /\ isServer \in BOOLEAN
  /\ adminMetaHash \in {hashString(m) : m \in Metas}
  /\ \E v \in ViewChoices, c \in CustomViewChoices : fieldViews = <<v, c>>
  /\ localStorage \in {NoItem, BrokenItem} \cup {StoredItem(hashString(m), m) : m \in Metas}
  /\ mustRenderServerResult = TRUE
  /\ hook = [i \in Hooks |-> Unmounted]

\* shouldFetchAdminMeta that does not look at the cache
shouldFetchAdminMeta_ignoresCache(cache, called) == ~called

\* line 51
shouldFetchAdminMeta(cache, called) == cache = undefined /\ ~called

\* NoRuntimeAdminMeta that accepts data that came with an error
NoRuntimeAdminMeta_ignoresError(cache, data, err) == data = undefined /\ cache = undefined

\* line 60: the memo returns undefined
NoRuntimeAdminMeta(cache, data, err) == (data = undefined \/ err) /\ cache = undefined

\* lines 63-65
AdminMetaSource(cache, data) == IF cache # undefined THEN cache ELSE data

\* WritesCache without the check that the meta did not come from the cache
WritesCache_always(cache) == ~isServer

\* line 125
WritesCache(cache) == ~isServer /\ cache = undefined

\* useMustRenderServerResult's return value (lines 20-24)
useMustRenderServerResult == IF isServer THEN TRUE ELSE mustRenderServerResult

\* ReturnState that reports an available runtime meta before looking at the guard
ReturnState_metaFirst(runtime, err) ==
  IF runtime # undefined THEN "loaded"
  ELSE IF useMustRenderServerResult THEN "loading"
  ELSE IF err THEN "error"
  ELSE "loading"

\* the state useAdminMeta returns (lines 136-151)
ReturnState(runtime, err) ==
  IF useMustRenderServerResult THEN "loading"
  ELSE IF runtime # undefined THEN "loaded"
  ELSE IF err THEN "error"
  ELSE "loading"

\* one render of instance i: the body of useAdminMeta (lines 27-152)
Render(i) ==
  LET h == hook[i]
      firstRender == h.phase = "unmounted"
      cache == IF firstRender THEN ReadCache ELSE h.cache
      stale == firstRender \/ h.memoDeps # <<h.data, h.error>>
      none == NoRuntimeAdminMeta(cache, h.data, h.error)
      adminMeta == AdminMetaSource(cache, h.data)
      throws == stale /\ ~none /\ BuildError(adminMeta) # "none"
      runtime == IF ~stale THEN h.runtimeAdminMeta
                 ELSE IF none THEN undefined
                 ELSE RuntimeAdminMeta(adminMeta)
      writes == stale /\ ~none /\ WritesCache(cache)
      fetch == shouldFetchAdminMeta(cache, h.called)
      state == ReturnState(runtime, h.error)
  IN /\ \/ firstRender
        \/ h.phase = "idle" /\ h.dirty
     /\ IF throws
        THEN /\ hook' = [hook EXCEPT ![i] =
                          [h EXCEPT !.phase = "threw", !.cache = cache, !.state = "threw",
                                    !.dirty = FALSE, !.refetch = FALSE, !.wrote = FALSE]]
             /\ UNCHANGED localStorage
        ELSE /\ hook' = [hook EXCEPT ![i] =
                          [h EXCEPT !.phase = IF isServer THEN "idle" ELSE "effects",
                                    !.cache = cache,
                                    !.memoDeps = IF stale THEN <<h.data, h.error>> ELSE @,
                                    !.runtimeAdminMeta = runtime,
                                    !.shouldFetchAdminMeta = fetch,
                                    !.fetchEffectDue = firstRender \/ fetch # h.shouldFetchAdminMeta,
                                    !.mountEffectDue = firstRender,
                                    !.dirty = FALSE,
                                    !.state = state,
                                    !.guarded = useMustRenderServerResult,
                                    !.refetch = (state = "error"),
                                    !.wrote = writes]]
             /\ localStorage' = IF writes
                                THEN StoredItem(hashString(adminMeta), adminMeta)
                                ELSE localStorage
     /\ UNCHANGED <<isServer, adminMetaHash, fieldViews, mustRenderServerResult>>
     /\ UNCHANGED vars

\* the effects of instance i after a render on the client: the fetch effect
\* (lines 53-57), then the mount effect of useMustRenderServerResult (lines 15-18)
RunEffects(i) ==
  LET h == hook[i]
      fetches == h.fetchEffectDue /\ h.shouldFetchAdminMeta
  IN /\ ~isServer
     /\ h.phase = "effects"
     /\ hook' = [hook EXCEPT ![i] =
                  [h EXCEPT !.phase = "idle",
                            !.called = @ \/ fetches,
                            !.loading = @ \/ fetches,
                            !.autoFetches = IF fetches THEN @ + 1 ELSE @,
                            !.fetchEffectDue = FALSE,
                            !.mountEffectDue = FALSE,
                            !.dirty = @ \/ fetches \/ h.mountEffectDue]]
     /\ mustRenderServerResult' = IF h.mountEffectDue THEN FALSE ELSE mustRenderServerResult
     /\ UNCHANGED <<isServer, adminMetaHash, fieldViews, localStorage>>
     /\ UNCHANGED vars

\* the static admin meta the server holds: adminMetaHash is its hash
ServerMeta == CHOOSE m \in Metas : hashString(m) = adminMetaHash

\* the network answers the query of instance i: data, an error, or data with an error
Respond(i) ==
  /\ hook[i].loading
  /\ \E m \in {ServerMeta}, kind \in {"data", "error", "both"} :
       hook' = [hook EXCEPT ![i] =
                  [@ EXCEPT !.loading = FALSE,
                            !.data = IF kind = "error" THEN undefined ELSE m,
                            !.error = (kind # "data"),
                            !.dirty = TRUE]]
  /\ UNCHANGED <<isServer, adminMetaHash, fieldViews, localStorage, mustRenderServerResult>>
  /\ UNCHANGED vars

\* the caller invokes the refetch callback of an 'error' result (lines 146-148)
Refetch(i) ==
  /\ hook[i].refetch
  /\ hook[i].phase = "idle"
  /\ ~hook[i].loading
  /\ hook' = [hook EXCEPT ![i] = [@ EXCEPT !.loading = TRUE, !.called = TRUE, !.dirty = TRUE]]
  /\ UNCHANGED <<isServer, adminMetaHash, fieldViews, localStorage, mustRenderServerResult>>
  /\ UNCHANGED vars

NextAdmin ==
  \/ \E i \in Hooks : Render(i)
  \/ \E i \in Hooks : RunEffects(i)
  \/ \E i \in Hooks : Respond(i)
  \/ \E i \in Hooks : Refetch(i)

SpecAdmin == InitAdmin /\ [][NextAdmin]_adminVars

(***************************************************************************)
(* Properties                                                              *)
(***************************************************************************)
Returned == pc = "returned"
Evaluated == lastEval # <<>> /\ lastEval[1].ok

\* the enablement of list l in the registry: listsRef[l].graphql.isEnabled is the
\* shared IsEnabled object
ListIsEnabled(l) == isEnabled[l]

EveryFieldHasCreateDisabled(l) ==
  \A k \in FieldKeys :
    ~(listsRef[l].fields[k].input.create = "arg" /\ listsRef[l].fields[k].isEnabled.create)

DeclarationOmitsCreate(l) ==
  config[l].omit.kind = "true" \/ Includes(config[l].omit, "create")

\* C1: in the returned registry, a list in which no field has both a create input
\* argument and create enablement has create enablement false, whether or not the
\* list's omit declaration omitted create
C1_CreateCascade ==
  Returned =>
    \A l \in ListKeys : EveryFieldHasCreateDisabled(l) => ~ListIsEnabled(l).create

C1_Witness ==
  /\ Returned
  /\ \E l \in ListKeys :
       /\ ~DeclarationOmitsCreate(l)
       /\ EveryFieldHasCreateDisabled(l)
       /\ \E k \in FieldKeys : listsRef[l].fields[k].input.create = "arg"
       /\ ~ListIsEnabled(l).create

FieldReadOmitted(l, k) ==
  LET omit == config[l].fields[k].omit IN omit.kind = "true" \/ Includes(omit, "read")

\* C2: for every initialised field, filter enablement implies read enablement and
\* orderBy enablement implies read enablement; a field declared with read omitted or
\* omit: true has filter and orderBy false
C2_ReadGatesFilterOrder ==
  \A l \in DOMAIN intermediateLists : \A k \in FieldKeys :
    LET e == intermediateLists[l].fields[k].isEnabled IN
      /\ Truthy(e.filter) => e.read
      /\ Truthy(e.orderBy) => e.read
      /\ FieldReadOmitted(l, k) => e.filter = "false" /\ e.orderBy = "false"

C2_Witness ==
  \E l \in DOMAIN intermediateLists : \E k \in FieldKeys :
    LET e == intermediateLists[l].fields[k].isEnabled IN
      /\ FieldReadOmitted(l, k)
      /\ config[l].fields[k].isFilterable = "true"
      /\ Truthy(ListIsEnabled(l).orderBy)
      /\ e.filter = "false" /\ e.orderBy = "false"

FullyResolved(l) ==
  /\ FieldKeys \subseteq DOMAIN listsRef[l].resolvedDbFields
  /\ DOMAIN listsRef[l].fields = FieldKeys
  /\ \A k \in FieldKeys : listsRef[l].fields[k].dbField = listsRef[l].resolvedDbFields[k]

\* C3: when initialiseLists has thrown, the registry is empty; the registry is always
\* either empty or holds every declared list, fully resolved
C3_NoPartialRegistry ==
  /\ error # "none" => listsRef = <<>>
  /\ \/ listsRef = <<>>
     \/ DOMAIN listsRef = ListKeys /\ \A l \in ListKeys : FullyResolved(l)

C3_Witness ==
  /\ pc = "thrown"
  /\ error = "FieldsInvalid"
  /\ intermediateLists # <<>>
  /\ listsRef = <<>>

TargetQueryOmitted(t) == config[t].omit.kind = "true" \/ Includes(config[t].omit, "query")

\* C4: an evaluated output type has no entry, own or extra, contributed by a relation
\* field whose target list has query omitted
C4_RelationOutputSuppressed ==
  Evaluated =>
    \A k \in FieldKeys :
      LET field == listsRef[lastEval[1].list].fields[k] IN
        (field.dbField.kind = "relation" /\ TargetQueryOmitted(field.dbField.list)) =>
          \A n \in DOMAIN lastEval[1].output : lastEval[1].output[n].fieldPath # k

C4_Witness ==
  /\ Evaluated
  /\ \E k \in FieldKeys :
       LET field == listsRef[lastEval[1].list].fields[k] IN
         /\ field.dbField.kind = "relation"
         /\ TargetQueryOmitted(field.dbField.list)
         /\ field.output /\ field.isEnabled.read
         /\ field.extraOutputFields # <<>>
         /\ \A n \in DOMAIN lastEval[1].output : lastEval[1].output[n].fieldPath # k
  /\ DOMAIN lastEval[1].output # {}

HasInvalidFieldAccess ==
  \E l \in ListKeys, k \in FieldKeys : ~FieldAccessValid(config[l].fields[k].access)

BeforeFieldsInitialised ==
  pc \in {"getIsEnabled", "getListGraphqlTypes", "getListsWithInitialisedFields"}

C6_MalformedOmitRejected ==
  \A l \in DOMAIN isEnabled : WellFormedListOmit(config[l].omit)

AllDisabled ==
  [type |-> FALSE, query |-> FALSE, create |-> FALSE, update |-> FALSE,
   delete |-> FALSE, filter |-> "false", orderBy |-> "false"]

\* C7: in the returned registry a list declared with omit: true has type, query,
\* create, update, delete, filter and orderBy all false
C7_OmitTrueDisablesAll ==
  Returned =>
    \A l \in ListKeys : config[l].omit.kind = "true" => ListIsEnabled(l) = AllDisabled

C7_Witness ==
  /\ Returned
  /\ \E l \in ListKeys :
       /\ config[l].omit.kind = "true"
       /\ config[l].defaultIsFilterable = "true"
       /\ \E k \in FieldKeys : config[l].fields[k].isOrderable = "true"
       /\ ListIsEnabled(l) = AllDisabled

\* C8: in the evaluated input types, a field contributes to the where input only if
\* read- and filter-enabled, to the unique-where input only if it also declares a
\* unique-lookup argument, to the orderBy input only if read- and orderBy-enabled, to
\* the create input only if create-enabled and to the update input only if update-enabled
C8_InputSuppression ==
  Evaluated =>
    \A k \in FieldKeys :
      LET r == lastEval[1]
          field == listsRef[r.list].fields[k]
          e == field.isEnabled
      IN /\ (k \in DOMAIN r.where /\ r.where[k] = "field") => e.read /\ Truthy(e.filter)
         /\ (k \in DOMAIN r.uniqueWhere /\ r.uniqueWhere[k] = "field") =>
              e.read /\ Truthy(e.filter) /\ field.input.uniqueWhere = "arg"
         /\ k \in r.orderBy => e.read /\ Truthy(e.orderBy)
         /\ k \in r.create => e.create
         /\ k \in r.update => e.update

C8_Witness ==
  /\ Evaluated
  /\ LET r == lastEval[1] IN
       \E k1, k2 \in FieldKeys :
         /\ listsRef[r.list].fields[k1].input.create = "arg"
         /\ k1 \notin r.create
         /\ k2 \in r.create
         /\ k2 \in DOMAIN r.where /\ r.where[k2] = "field"

DeclaredCreate(l) == IsEnabledRecord(config[l]).create

\* C9: for a list with type enabled, each evaluated relateTo input type has a create
\* entry exactly if the list's create enablement after cascading disablement is true,
\* and always has connect
C9_RelateToCreateGate ==
  Evaluated =>
    LET r == lastEval[1]
        types == {r.relateTo.manyCreate, r.relateTo.manyUpdate,
                  r.relateTo.oneCreate, r.relateTo.oneUpdate}
    IN ListIsEnabled(r.list).type =>
         /\ r.relateTo.defined
         /\ \A t \in types :
              /\ "create" \in t <=> ListIsEnabled(r.list).create
              /\ "connect" \in t

C9_Witness ==
  /\ Evaluated
  /\ LET r == lastEval[1] IN
       /\ ListIsEnabled(r.list).type
       /\ DeclaredCreate(r.list)
       /\ ~ListIsEnabled(r.list).create
       /\ r.relateTo.oneCreate = {"connect"}

\* C10: an evaluated unique-where input always has the entry id, and that entry is the
\* identity key, not a field's argument
C10_UniqueWhereHasId ==
  Evaluated =>
    /\ "id" \in DOMAIN lastEval[1].uniqueWhere
    /\ lastEval[1].uniqueWhere["id"] = "ID"

C10_Witness ==
  /\ Evaluated
  /\ LET field == listsRef[lastEval[1].list].fields["id"] IN
       /\ field.input.uniqueWhere = "arg"
       /\ field.isEnabled.read
       /\ Truthy(field.isEnabled.filter)
  /\ lastEval[1].uniqueWhere["id"] = "ID"


\* the positions of initialiseLists, in the order of its statements (lines 469-551)
PassOrder ==
  <<"getIsEnabled", "getListGraphqlTypes", "getListsWithInitialisedFields",
    "resolveRelationships", "assignDbFields", "cascade", "assertFieldsValid",
    "populate", "returned">>

\* the passes that contain a throw (lines 469-475, 487, 490-498, 540-542)
FalliblePasses ==
  {"getIsEnabled", "getListsWithInitialisedFields", "resolveRelationships",
   "assertFieldsValid"}

\* every list has been through the pass that ends at position p
PassDoneForAllLists(p) ==
  /\ p = "getListGraphqlTypes" => DOMAIN isEnabled' = ListKeys
  /\ p = "getListsWithInitialisedFields" => DOMAIN graphQLTypes' = ListKeys
  /\ p = "resolveRelationships" =>
       /\ DOMAIN intermediateLists' = ListKeys
       /\ \A l \in ListKeys : DOMAIN intermediateLists'[l].fields = FieldKeys
       /\ \A q \in ListKeys \X FieldKeys : Len(calls'[q]) = 1
  /\ p = "assignDbFields" =>
       \A l \in ListKeys : FieldKeys \subseteq DOMAIN intermediateLists'[l].resolvedDbFields
  /\ p = "cascade" =>
       \A l \in ListKeys : \A k \in FieldKeys :
         intermediateLists'[l].fields[k].dbField = intermediateLists'[l].resolvedDbFields[k]
  /\ p = "assertFieldsValid" =>
       \A l \in ListKeys :
         /\ isEnabled'[l].create => hasAnEnabledCreateField(l)
         /\ isEnabled'[l].update => hasAnEnabledUpdateField(l)
  /\ p = "populate" =>
       /\ \A l \in ListKeys : ~FieldsInvalid(l)
       /\ isEnabled' = isEnabled
  /\ p = "returned" => DOMAIN listsRef' = ListKeys

\* C11: the passes of initialiseLists run in the order enablement, thunk registration,
\* field initialisation, relationship resolution, cascading disablement, validation,
\* population, each one over all lists before the next begins; the registry is written
\* by the population step alone; only the fallible passes can throw, validation being
\* the last of them, and a validation failure throws with the enablement untouched and
\* the registry empty
C11_PassOrder ==
  [][ /\ pc' # pc =>
           \/ /\ \E i \in 1..(Len(PassOrder) - 1) : pc = PassOrder[i] /\ pc' = PassOrder[i + 1]
              /\ PassDoneForAllLists(pc')
           \/ pc' = "thrown" /\ pc \in FalliblePasses
      /\ listsRef' # listsRef => pc = "populate" /\ pc' = "returned"
      /\ (pc = "assertFieldsValid" /\ \E l \in ListKeys : FieldsInvalid(l)) =>
           /\ pc' = "thrown"
           /\ isEnabled' = isEnabled
           /\ listsRef' = <<>>
           /\ result' = "none"
    ]_vars

\* a load aborted by validation: the invalid list is still enabled, nothing is registered
C11_Witness ==
  /\ pc = "thrown"
  /\ error = "FieldsInvalid"
  /\ listsRef = <<>>
  /\ \E l \in ListKeys : FieldsInvalid(l) /\ isEnabled[l].type
  /\ \A q \in ListKeys \X FieldKeys : Len(calls[q]) = 1


\* C12: the registry object given to getListGraphqlTypes, and captured by every list's
\* types, is the object initialiseLists returns; nothing is returned before the load
\* succeeds; the returned registry has exactly one entry per declared list key, and the
\* `lists` back-reference of every entry is that same object
C12_RegistryIdentity ==
  /\ \A l \in DOMAIN graphQLTypes : graphQLTypes[l].lists = RegistryObject
  /\ result # "none" <=> Returned
  /\ Returned =>
       /\ result = RegistryObject
       /\ DOMAIN listsRef = ListKeys
       /\ \A l \in ListKeys :
            /\ listsRef[l].listKey = l
            /\ listsRef[l].lists = result
            /\ graphQLTypes[l].lists = result

\* a returned registry in which Person's relation field is resolved towards Post, the
\* list Person reaches through its back-reference, and whose thunks have been evaluated
C12_Witness ==
  /\ Returned
  /\ Evaluated
  /\ result = RegistryObject
  /\ \E k \in FieldKeys :
       /\ listsRef["Person"].fields[k].dbField.kind = "relation"
       /\ listsRef["Person"].fields[k].dbField.list = "Post"
       /\ listsRef[listsRef["Person"].fields[k].dbField.list].lists = result


OneSidedManyToOne(a, k, b) ==
  /\ config[a].fields[k].dbField = RelationDbField(b, "one", "")
  /\ \A j \in FieldKeys :
       ~(config[b].fields[j].dbField.kind = "relation"
           /\ config[b].fields[j].dbField.list = a
           /\ config[b].fields[j].dbField.field = k)

\* list b's resolved storage fields hold a synthesized one-to-many field referencing
\* field k of list a
HasSynthesizedInverse(b, a, k) ==
  \E n \in DOMAIN listsRef[b].resolvedDbFields \ FieldKeys :
    listsRef[b].resolvedDbFields[n] = RelationDbField(a, "many", k)

\* C15: in the returned registry, for every one-sided many-to-one relation field from a
\* list A to a list B with no field of B referencing back, B's resolved storage fields
\* contain a synthesized field that references A with one-to-many cardinality, whichever
\* of the two lists declares the relation
C15_InverseSynthesized ==
  Returned =>
    \A a, b \in ListKeys : \A k \in FieldKeys :
      OneSidedManyToOne(a, k, b) => HasSynthesizedInverse(b, a, k)

\* a returned registry in which Post and Person each declare a one-sided many-to-one
\* relation to the other, and each holds the synthesized inverse of the other's field
C15_Witness ==
  /\ Returned
  /\ \E k \in FieldKeys :
       OneSidedManyToOne("Post", k, "Person") /\ HasSynthesizedInverse("Person", "Post", k)
  /\ \E k \in FieldKeys :
       OneSidedManyToOne("Person", k, "Post") /\ HasSynthesizedInverse("Post", "Person", k)


FieldsInitialised ==
  \/ pc \in {"resolveRelationships", "assignDbFields", "cascade", "assertFieldsValid",
             "populate", "returned"}
  \/ pc = "thrown" /\ error \in {"Relationship", "FieldsInvalid"}

C17_CascadeFrame ==
  [][ pc = "cascade" =>
        /\ \A l \in ListKeys :
             /\ isEnabled'[l].type = IsEnabledRecord(config[l]).type
             /\ isEnabled'[l].query = IsEnabledRecord(config[l]).query
             /\ isEnabled'[l].delete = IsEnabledRecord(config[l]).delete
             /\ isEnabled'[l].filter = IsEnabledRecord(config[l]).filter
             /\ isEnabled'[l].orderBy = IsEnabledRecord(config[l]).orderBy
             /\ isEnabled'[l].create => isEnabled[l].create
             /\ isEnabled'[l].update => isEnabled[l].update
        /\ intermediateLists' = intermediateLists
        /\ listsRef' = listsRef
    ]_vars

\* the cascade has run over a list whose fields are all declared with omit: true: its
\* create and update were switched off, its type, query and delete are still on
C17_Witness ==
  /\ pc = "assertFieldsValid"
  /\ \E l \in ListKeys :
       /\ \A k \in FieldKeys : config[l].fields[k].omit = OmitTrue
       /\ \A k \in FieldKeys :
            /\ ~intermediateLists[l].fields[k].isEnabled.read
            /\ ~intermediateLists[l].fields[k].isEnabled.create
            /\ ~intermediateLists[l].fields[k].isEnabled.update
       /\ IsEnabledRecord(config[l]).create /\ ~isEnabled[l].create
       /\ IsEnabledRecord(config[l]).update /\ ~isEnabled[l].update
       /\ isEnabled[l].type /\ isEnabled[l].query /\ isEnabled[l].delete


\* C18: in the returned registry a list with create enablement true has at least one
\* field in its create input type, and a list with update enablement true has at least
\* one field in its update input type
C18_NoEmptyInputType ==
  Returned =>
    \A l \in ListKeys :
      /\ isEnabled[l].create => CreateFields(l) # {}
      /\ isEnabled[l].update => UpdateFields(l) # {}


BooleanOrFunction == {"true", "false", "function"}

\* C19: a list-level defaultIsFilterable/defaultIsOrderable that is not a boolean,
\* undefined or a function stops initialiseLists in getIsEnabled, whatever the list's
\* omit; such a field-level isFilterable/isOrderable stops it in field initialisation;
\* every list-level and field-level filter and orderBy enablement of a returned
\* registry is a boolean or a function
C19_FilterValuesValidated ==
  /\ (\E l \in ListKeys : ~IsAFilter(config[l].defaultIsFilterable)
                            \/ ~IsAFilter(config[l].defaultIsOrderable))
       => pc \in {"getIsEnabled", "thrown"}
  /\ (\E l \in ListKeys, k \in FieldKeys :
         /\ config[l].fields[k].isFunc
         /\ ~IsAFilter(config[l].fields[k].isFilterable)
              \/ ~IsAFilter(config[l].fields[k].isOrderable))
       => (BeforeFieldsInitialised \/ pc = "thrown")
  /\ Returned =>
       \A l \in ListKeys :
         /\ isEnabled[l].filter \in BooleanOrFunction
         /\ isEnabled[l].orderBy \in BooleanOrFunction
         /\ \A k \in FieldKeys :
              /\ listsRef[l].fields[k].isEnabled.filter \in BooleanOrFunction
              /\ listsRef[l].fields[k].isEnabled.orderBy \in BooleanOrFunction


\* C20: in the returned registry the filter (orderBy) enablement of a readable field is
\* the field's own isFilterable (isOrderable) when set, otherwise the list's
\* defaultIsFilterable (defaultIsOrderable) when set, otherwise false
C20_FilterDefaultsToFalse ==
  Returned =>
    \A l \in ListKeys : \A k \in FieldKeys :
      (config[l].omit.kind # "true" /\ listsRef[l].fields[k].isEnabled.read) =>
        /\ listsRef[l].fields[k].isEnabled.filter =
             Nullish(config[l].fields[k].isFilterable,
                     Nullish(config[l].defaultIsFilterable, "false"))
        /\ listsRef[l].fields[k].isEnabled.orderBy =
             Nullish(config[l].fields[k].isOrderable,
                     Nullish(config[l].defaultIsOrderable, "false"))


\* C21: in an evaluated output type every entry is the field's own output or one of the
\* extra output fields of exactly one declared field, and carries that field's resolved
\* read access rule, the list key and the field's path; every field the thunk does not
\* drop has its own output and all its extra output fields exposed that way
C21_OutputCarriesReadRule ==
  Evaluated =>
    LET l == lastEval[1].list
        out == lastEval[1].output
    IN /\ \A n \in DOMAIN out :
            /\ out[n].name = n
            /\ out[n].listKey = l
            /\ out[n].fieldPath \in FieldKeys
            /\ n = out[n].fieldPath \/ n \in ExtraNames(listsRef[l].fields[out[n].fieldPath])
            /\ out[n].access =
                 parseFieldAccessControl(config[l].fields[out[n].fieldPath].access).read
       /\ \A k \in FieldKeys :
            ~OutputSuppressed(listsRef[l].fields[k]) =>
              \A n \in {k} \cup ExtraNames(listsRef[l].fields[k]) :
                n \in DOMAIN out /\ out[n].fieldPath = k

\* an evaluated output type that exposes an extra output field of a field whose read
\* access is a function, next to a field with the default read access
C21_Witness ==
  /\ Evaluated
  /\ \E k \in FieldKeys, n \in DOMAIN lastEval[1].output :
       /\ n # k
       /\ lastEval[1].output[n].fieldPath = k
       /\ lastEval[1].output[n].access = "function"
       /\ lastEval[1].output[k].access = "function"
  /\ \E j \in DOMAIN lastEval[1].output : lastEval[1].output[j].access = "true"


\* the storage fields of list l that relationship resolution added for relations
\* declared on another list
SynthesizedNames(l) == DOMAIN listsRef[l].resolvedDbFields \ FieldKeys

\* C22: in the returned registry each list's fields are exactly the declared field keys,
\* the synthesized inverse relations being entries of resolvedDbFields only, and each
\* declared field's dbField is the entry relationship resolution produced for its key
C22_FieldsCarryResolvedDbField ==
  Returned =>
    \A l \in ListKeys :
      /\ DOMAIN listsRef[l].fields = FieldKeys
      /\ DOMAIN listsRef[l].fields \cap SynthesizedNames(l) = {}
      /\ FieldKeys \subseteq DOMAIN listsRef[l].resolvedDbFields
      /\ \A k \in FieldKeys :
           /\ listsRef[l].fields[k].dbField = listsRef[l].resolvedDbFields[k]
           /\ config[l].fields[k].dbField.kind = listsRef[l].fields[k].dbField.kind
           /\ (config[l].fields[k].dbField.kind = "relation"
                 /\ config[l].fields[k].dbField.field = "") =>
                listsRef[l].fields[k].dbField =
                  [config[l].fields[k].dbField EXCEPT !.field = InverseName(l, k)]

\* a returned registry with a synthesized inverse on one list and, on the other, a
\* relation field whose resolved dbField differs from the one its constructor returned
C22_Witness ==
  /\ Returned
  /\ \E l \in ListKeys : SynthesizedNames(l) # {}
  /\ \E l \in ListKeys, k \in FieldKeys :
       /\ config[l].fields[k].dbField.kind = "relation"
       /\ listsRef[l].fields[k].dbField # config[l].fields[k].dbField
       /\ listsRef[l].fields[k].dbField = listsRef[l].resolvedDbFields[k]


\* local storage holds an entry whose stored hash equals adminMetaHash
MatchingEntryStored ==
  ~isServer /\ localStorage.kind = "entry" /\ localStorage.hash = adminMetaHash

\* C23: an instance of useAdminMeta takes a cached meta from local storage exactly when
\* its first render finds an entry whose hash equals adminMetaHash (a missing entry,
\* unparseable JSON and a hash mismatch give none); its fetch effect issues the query
\* only when it has no cached meta and the query has not been called, so an instance
\* with a cached meta never fetches automatically and one without fetches at most once
C23_AutomaticFetch ==
  /\ [](\A i \in Hooks :
         /\ hook[i].autoFetches <= 1
         /\ hook[i].cache # undefined => hook[i].autoFetches = 0)
  /\ [][\A i \in Hooks :
          /\ (hook[i].phase = "unmounted" /\ hook'[i].phase # "unmounted") =>
               (hook'[i].cache # undefined <=> MatchingEntryStored)
          /\ hook'[i].autoFetches # hook[i].autoFetches =>
               /\ hook[i].cache = undefined
               /\ ~hook[i].called
               /\ hook'[i].called
               /\ hook'[i].loading
     ]_adminVars

\* one instance found unparseable or missing or mismatching storage, fetched once and
\* is loaded; the other, mounted afterwards, took the meta from the cache and has gone
\* through its effects without fetching
C23_Witness ==
  \E i, j \in Hooks :
    /\ i # j
    /\ hook[i].cache = undefined /\ hook[i].autoFetches = 1 /\ hook[i].state = "loaded"
    /\ hook[j].cache # undefined /\ hook[j].autoFetches = 0
    /\ hook[j].phase = "idle" /\ hook[j].state = "loaded" /\ ~hook[j].called


\* C24: an instance writes the cache only on the client, only without a cached meta, and
\* only in a render whose memo built the whole runtime meta from query data that came
\* without an error; a render that throws on a field view export leaves local storage
\* as it was; local storage changes in no other way, and the item written is the pair
\* of the hash of the fetched meta and the fetched meta
C24_CacheWrite ==
  /\ [](\A i \in Hooks :
         hook[i].wrote =>
           /\ ~isServer
           /\ hook[i].cache = undefined
           /\ hook[i].memoDeps[1] \in Metas
           /\ hook[i].memoDeps[2] = FALSE
           /\ BuildError(hook[i].memoDeps[1]) = "none"
           /\ hook[i].runtimeAdminMeta = RuntimeAdminMeta(hook[i].memoDeps[1])
           /\ hook[i].phase # "threw")
  /\ [][/\ localStorage' # localStorage =>
            \E i \in Hooks :
              /\ hook'[i] # hook[i]
              /\ hook'[i].wrote
              /\ localStorage' = StoredItem(hashString(hook'[i].memoDeps[1]),
                                           hook'[i].memoDeps[1])
        /\ \A i \in Hooks :
             (hook'[i].phase = "threw" /\ hook[i].phase # "threw") =>
               localStorage' = localStorage
     ]_adminVars

\* an instance that found no usable cache has fetched a meta with custom views, built
\* the runtime meta and stored the pair
C24_Witness ==
  \E i \in Hooks :
    /\ hook[i].wrote
    /\ hook[i].state = "loaded"
    /\ hook[i].memoDeps[1] = CustomMeta
    /\ hook[i].runtimeAdminMeta.fields[2].overridden # {}
    /\ localStorage = StoredItem(hashString(CustomMeta), CustomMeta)


\* instance i has returned from a render in which the server-render guard was off
ReturnedUnguarded(i) ==
  hook[i].state \in {"loading", "loaded", "error"} /\ ~hook[i].guarded

\* C25: a render with the server-render guard off has a runtime meta exactly when the
\* instance has a cached meta or the query gave data without an error; it returns
\* 'loaded' exactly when it has a runtime meta, 'error', with the refetch callback,
\* exactly when it has none and the query reported an error, and 'loading' exactly
\* when it has none and no error was reported
C25_ReturnedState ==
  \A i \in Hooks :
    ReturnedUnguarded(i) =>
      LET data == hook[i].memoDeps[1]
          err == hook[i].memoDeps[2]
          runtime == hook[i].runtimeAdminMeta
      IN /\ runtime # undefined <=>
              (hook[i].cache # undefined \/ (data # undefined /\ ~err))
         /\ hook[i].state = "loaded" <=> runtime # undefined
         /\ hook[i].state = "error" <=> (runtime = undefined /\ err)
         /\ hook[i].state = "loading" <=> (runtime = undefined /\ ~err)
         /\ hook[i].refetch <=> hook[i].state = "error"

\* with the guard off, one instance got data together with an error and returned
\* 'error' with the refetch callback, while the other returned 'loaded'
C25_Witness ==
  \E i, j \in Hooks :
    /\ ReturnedUnguarded(i)
    /\ hook[i].memoDeps[1] # undefined /\ hook[i].memoDeps[2]
    /\ hook[i].state = "error" /\ hook[i].refetch
    /\ ReturnedUnguarded(j)
    /\ hook[j].state = "loaded"


\* the step is a render of instance i that returned
RenderReturned(i) ==
  /\ hook[i].phase \in {"unmounted", "idle"}
  /\ hook'[i] # hook[i]
  /\ hook'[i].phase = IF isServer THEN "idle" ELSE "effects"
  /\ hook'[i].state # "threw"
  /\ hook'[i].dirty = FALSE /\ hook'[i].loading = hook[i].loading

\* the mount effect of instance i has run
MountEffectRan(i) ==
  ~isServer /\ hook[i].phase \in {"idle", "effects"} /\ ~hook[i].mountEffectDue

\* C26: a render on the server, or on the client while the module-level flag is still
\* true, returns 'loading' whatever meta is available; the flag is true until the first
\* mount effect of any instance runs, is set to false by a mount effect only, and never
\* becomes true again; a render with the flag false, by any instance, is not guarded
C26_ServerRenderGuard ==
  /\ [](\A i \in Hooks :
         /\ (hook[i].guarded /\ hook[i].state # "threw") => hook[i].state = "loading"
         /\ MountEffectRan(i) => ~mustRenderServerResult
         /\ isServer => mustRenderServerResult)
  /\ [][/\ \A i \in Hooks :
             RenderReturned(i) =>
               /\ hook'[i].guarded <=> (isServer \/ mustRenderServerResult)
               /\ (isServer \/ mustRenderServerResult) => hook'[i].state = "loading"
        /\ ~mustRenderServerResult => ~mustRenderServerResult'
        /\ mustRenderServerResult' # mustRenderServerResult =>
             \E i \in Hooks :
               /\ hook[i].phase = "effects" /\ hook[i].mountEffectDue
               /\ hook'[i].phase = "idle"
     ]_adminVars

\* one instance rendered 'loading' under the guard although it had a runtime meta from
\* the cache, and its mount effect has switched the flag off; the other instance,
\* mounted afterwards, returned 'loaded' from its first render
C26_Witness ==
  \E i, j \in Hooks :
    /\ hook[i].guarded /\ hook[i].state = "loading"
    /\ hook[i].runtimeAdminMeta # undefined
    /\ MountEffectRan(i)
    /\ ~mustRenderServerResult
    /\ hook[j].phase = "effects" /\ hook[j].mountEffectDue
    /\ ~hook[j].guarded /\ hook[j].state = "loaded"

====
